---- MODULE Spec2Model ----
(***************************************************************************)
(* State-machine model of app.py: the GTIN scraper and Shopify uploader.   *)
(* One run of main() is one Streamlit rerun.  The scrape phase and the     *)
(* upload phase are followed row by row; the catalog site and the commerce *)
(* platform answer every call nondeterministically.                        *)
(***************************************************************************)
EXTENDS Naturals, Sequences, FiniteSets, TLC

(***************************************************************************)
(* Bounds of the model.                                                    *)
(***************************************************************************)
\* longest input file, in rows
MaxRows == 2
\* rows handed to the upload loop over one interactive session
MaxUploads == 4

(***************************************************************************)
(* Values of a dataframe cell.  Decimal numbers are fixed point: n / d.    *)
(* Short texts are strings; GTINs and links are sequences of characters so *)
(* that strip() can be computed.                                           *)
(***************************************************************************)
None == [t |-> "None"]
NaN == [t |-> "NaN"]
Num(n, d) == [t |-> "num", n |-> n, d |-> d]
Text(s) == [t |-> "str", s |-> s]
Chars(cs) == [t |-> "chars", cs |-> cs]

\* pd.isna / not pd.notnull
IsNa(v) == v.t \in {"None", "NaN"}

\* Python truthiness of an optional string
Truthy(v) ==
  CASE v.t = "None" -> FALSE
    [] v.t = "NaN" -> TRUE
    [] v.t = "str" -> v.s # ""
    [] v.t = "chars" -> v.cs # <<>>
    [] OTHER -> TRUE

RECURSIVE LStrip(_)
LStrip(cs) == IF cs # <<>> /\ Head(cs) = " " THEN LStrip(Tail(cs)) ELSE cs

RECURSIVE RStrip(_)
RStrip(cs) ==
  IF cs # <<>> /\ cs[Len(cs)] = " " THEN RStrip(SubSeq(cs, 1, Len(cs) - 1)) ELSE cs

\* str.strip()
Strip(cs) == RStrip(LStrip(cs))

(***************************************************************************)
(* Input files.                                                            *)
(***************************************************************************)
PRICE_COL == "€ Price inc. shipping"

required_cols == <<"GTIN", "Name", "Brand", "Category", PRICE_COL, "Inventory">>

Range(s) == {s[i] : i \in DOMAIN s}

RowA ==
  [c \in Range(required_cols) \cup {"Notes"} |->
     CASE c = "GTIN" -> Chars(<<"1", "1">>)
       [] c = "Name" -> Text("Aqua")
       [] c = "Brand" -> Text("B1")
       [] c = "Category" -> Text("Perfume")
       [] c = PRICE_COL -> Num(1050, 100)
       [] c = "Inventory" -> Num(5, 1)
       [] OTHER -> Text("n1")]

\* padded GTIN, missing cost, missing inventory
RowB ==
  [c \in Range(required_cols) \cup {"Notes"} |->
     CASE c = "GTIN" -> Chars(<<" ", "2", " ">>)
       [] c = "Name" -> Text("Bloom")
       [] c = "Brand" -> Text("B2")
       [] c = "Category" -> Text("Perfume")
       [] c = PRICE_COL -> NaN
       [] c = "Inventory" -> NaN
       [] OTHER -> Text("n2")]

\* zero cost, inventory that is no integer
RowC ==
  [c \in Range(required_cols) \cup {"Notes"} |->
     CASE c = "GTIN" -> Chars(<<"3">>)
       [] c = "Name" -> Text("Cedar")
       [] c = "Brand" -> Text("B3")
       [] c = "Category" -> Text("Perfume")
       [] c = PRICE_COL -> Num(0, 100)
       [] c = "Inventory" -> Text("ten")
       [] OTHER -> Text("n3")]

\* cost that is no number
RowD ==
  [c \in Range(required_cols) \cup {"Notes"} |->
     CASE c = "GTIN" -> Chars(<<"4">>)
       [] c = "Name" -> Text("Dune")
       [] c = "Brand" -> Text("B4")
       [] c = "Category" -> Text("Perfume")
       [] c = PRICE_COL -> Text("free")
       [] c = "Inventory" -> Num(1, 1)
       [] OTHER -> Text("n4")]

RowPool == {RowA, RowB, RowC, RowD}

RowSeqs == UNION {[1..n -> RowPool] : n \in 0..MaxRows}

\* a complete file carries the extra column "Notes"; a file that lacks a required column
\* comes with and without it
ColumnSets ==
  {Range(required_cols) \cup {"Notes"}}
    \cup {Range(required_cols) \ {c} : c \in Range(required_cols)}
    \cup {(Range(required_cols) \ {c}) \cup {"Notes"} : c \in Range(required_cols)}

Files ==
  {[columns |-> cs, data |-> [i \in 1..Len(rs) |-> [c \in cs |-> rs[i][c]]]] :
     cs \in ColumnSets, rs \in RowSeqs}

(***************************************************************************)
(* Catalog Lookup and Catalog Scraper.  The answer of the site is the      *)
(* argument resp; the functions compute what the code returns for it.      *)
(***************************************************************************)
\* the href the search page carries for a keyword
Href(keyword) == Chars(<<"/">> \o keyword)

SearchResponses(keyword) ==
  {[kind |-> "error"], [kind |-> "unparsable"],
   [kind |-> "html", container |-> FALSE, anchor |-> FALSE, href |-> None],
   [kind |-> "html", container |-> TRUE, anchor |-> FALSE, href |-> None],
   [kind |-> "html", container |-> TRUE, anchor |-> TRUE, href |-> None],
   [kind |-> "html", container |-> TRUE, anchor |-> TRUE, href |-> Chars(<<>>)],
   [kind |-> "html", container |-> TRUE, anchor |-> TRUE, href |-> Href(keyword)]}

fetch_product_link(resp) ==
  CASE resp.kind = "error" -> None
    [] resp.kind = "unparsable" -> None
    [] OTHER ->
         IF ~resp.container THEN None
         ELSE IF ~resp.anchor THEN None
         ELSE IF Truthy(resp.href) THEN resp.href
         ELSE None

DetailResponses ==
  {[kind |-> "error"], [kind |-> "unparsable"],
   [kind |-> "html", description |-> None, image |-> None],
   [kind |-> "html", description |-> Text("D"), image |-> Text("I")]}

\* <<description_text, image_url>>
fetch_product_details(resp) ==
  CASE resp.kind = "error" -> <<None, None>>
    [] resp.kind = "unparsable" -> <<None, None>>
    [] OTHER ->
         <<IF resp.description.t = "None" THEN Text("") ELSE resp.description,
           resp.image>>

(***************************************************************************)
(* Pricing.                                                                *)
(***************************************************************************)
Multiplier == Num(140, 100)

\* one cell of  df[PRICE_COL] * 1.40 ; a string cell makes pandas raise
TimesRaises(v) == v.t \notin {"num", "NaN", "None"}

Times(v, m) == IF v.t = "num" THEN Num(v.n * m.n, v.d * m.d) ELSE NaN

(***************************************************************************)
(* Python conversions used by the upload loop.                             *)
(***************************************************************************)
IntLiterals == [s \in {"0", "1", "5"} |-> CASE s = "0" -> 0 [] s = "1" -> 1 [] OTHER -> 5]

\* int(v): [ok, v]; ok = FALSE stands for ValueError
PyInt(v) ==
  CASE v.t = "num" -> [ok |-> TRUE, v |-> v.n \div v.d]
    [] v.t = "str" ->
         IF v.s \in DOMAIN IntLiterals
           THEN [ok |-> TRUE, v |-> IntLiterals[v.s]]
           ELSE [ok |-> FALSE, v |-> 0]
    [] OTHER -> [ok |-> FALSE, v |-> 0]

RECURSIVE JoinRepr(_)
JoinRepr(items) ==
  IF items = <<>> THEN ""
  ELSE IF Len(items) = 1 THEN "'" \o items[1] \o "'"
  ELSE "'" \o items[1] \o "', " \o JoinRepr(Tail(items))

\* str() of the third component upload_product returns, as the f-string renders it
PyStr(v) ==
  CASE v.t = "None" -> "None"
    [] v.t = "str" -> v.s
    [] v.t = "list" -> "[" \o JoinRepr(v.items) \o "]"
    [] OTHER -> "?"

(***************************************************************************)
(* Commerce Uploader.  The platform's answers to product.save(),           *)
(* Location.find() and InventoryLevel.set() are the argument env; products *)
(* and levels are the products and inventory levels the platform stored    *)
(* so far, next_id the id it gives to the next product.                    *)
(***************************************************************************)
ValidationMessages == [t |-> "list", items |-> <<"title required">>]

NetworkError == "connection reset"

\* an answer the call never asks for is left at its first value
PlatformAnswers ==
  {e \in [save : {"accept", "reject", "raise"},
          find : {"ok", "raise"},
          locations : {<<>>, <<"L1", "L2">>},
          set : {"ok", "raise"}] :
     /\ e.save # "accept" => e.find = "ok"
     /\ e.find = "raise" => e.locations = <<>>
     /\ (e.save # "accept" \/ e.locations = <<>>) => e.set = "ok"}

\* the last location instead of the first
LastLocation(locations) == locations[Len(locations)]

\* locations[0].id
FirstLocation(locations) == locations[1]

\* [success, product_id, error] and the platform's products and levels after the call
upload_product(name, description, price, image_url, sku, inventory, env, products, levels, next_id) ==
  LET id == next_id
      product ==
        [id |-> id, title |-> "Test " \o name.s, body_html |-> description,
         status |-> "active",
         variants |-> <<[price |-> price, sku |-> sku,
                         inventory_management |-> "shopify",
                         inventory_item_id |-> id]>>,
         images |-> IF Truthy(image_url) THEN <<image_url>> ELSE <<>>]
      saved == Append(products, product)
  IN  IF env.save = "raise"
        THEN [success |-> FALSE, product_id |-> None, error |-> Text(NetworkError),
              products |-> products, levels |-> levels]
      ELSE IF env.save = "reject"
        THEN [success |-> FALSE, product_id |-> None, error |-> ValidationMessages,
              products |-> products, levels |-> levels]
      ELSE IF env.find = "raise"
        THEN [success |-> FALSE, product_id |-> None, error |-> Text(NetworkError),
              products |-> saved, levels |-> levels]
      ELSE IF env.locations = <<>>
        THEN [success |-> FALSE, product_id |-> None,
              error |-> Text("No locations found for inventory."),
              products |-> saved, levels |-> levels]
      ELSE IF env.set = "raise"
        THEN [success |-> FALSE, product_id |-> None, error |-> Text(NetworkError),
              products |-> saved, levels |-> levels]
      ELSE [success |-> TRUE, product_id |-> Num(id, 1), error |-> None,
            products |-> saved,
            levels |-> Append(levels,
                         [location_id |-> FirstLocation(env.locations),
                          inventory_item_id |-> product.variants[1].inventory_item_id,
                          available |-> inventory])]

(***************************************************************************)
(* State.                                                                  *)
(***************************************************************************)
VARIABLES
  uploaded_file,         \* the table in the file uploader, NoFile before an upload
  session_state,         \* st.session_state: a function, with key "dataframe" or none
  pc,                    \* position of the running main(), "idle" between reruns
  idx,                   \* row of the running loop
  df,                    \* the dataframe main() read in the running scrape
  scraped_descriptions,
  scraped_images,
  links,                 \* the list built for df["Link"]
  shopify_session,       \* the process-wide activated session: "active" or "none"
  products,              \* products the platform stored during this (or the last) run
  levels,                \* inventory levels the platform set during this (or the last) run
  next_id,               \* id the platform gives to the next product it stores
  calls,                 \* calls made by the running (or last) run of main(), in order
  submitted,             \* rows handed to the upload loop so far
  last_run               \* how the last run of main() ended

vars ==
  <<uploaded_file, session_state, pc, idx, df, scraped_descriptions, scraped_images,
    links, shopify_session, products, levels, next_id, calls, submitted, last_run>>

NoFile == [columns |-> {}, data |-> <<>>]

EmptyState == [k \in {} |-> NoFile]

\* pd.read_csv: the uploaded table
read_csv(file) == file

\* the check run over all required columns but the last
MissingColsButLast(d) ==
  LET Missing(c) == c \notin d.columns
  IN  SelectSeq(SubSeq(required_cols, 1, Len(required_cols) - 1), Missing)

\* [col for col in required_cols if col not in df.columns]
MissingCols(d) ==
  LET Missing(c) == c \notin d.columns IN SelectSeq(required_cols, Missing)

\* df[col] = values
SetColumn(d, col, values) ==
  [columns |-> d.columns \cup {col},
   data |-> [i \in 1..Len(d.data) |->
               [c \in d.columns \cup {col} |->
                  IF c = col THEN values[i] ELSE d.data[i][c]]]]

\* df[col] = value, only where the column does not exist yet
AddColumnIfAbsent(d, col, value) ==
  IF col \in d.columns THEN d
  ELSE SetColumn(d, col, [i \in 1..Len(d.data) |-> value])

\* df.loc[i] = value: the whole row assigned instead of one cell
SetAtWholeRow(d, i, col, value) ==
  [d EXCEPT !.data[i] = [c \in DOMAIN d.data[i] |-> value]]

\* df.at[i, col] = value
SetAt(d, i, col, value) ==
  [d EXCEPT !.data[i] = [c \in DOMAIN d.data[i] |-> IF c = col THEN value ELSE d.data[i][c]]]

Init ==
  /\ uploaded_file = NoFile
  /\ session_state = EmptyState
  /\ pc = "idle"
  /\ idx = 0
  /\ df = NoFile
  /\ scraped_descriptions = <<>>
  /\ scraped_images = <<>>
  /\ links = <<>>
  /\ shopify_session = "none"
  /\ products = <<>>
  /\ levels = <<>>
  /\ next_id = 1
  /\ calls = <<>>
  /\ submitted = 0
  /\ last_run = "none"

(***************************************************************************)
(* The user puts a file into the uploader; main() reruns without a button. *)
(***************************************************************************)
UploadFile ==
  /\ pc = "idle"
  /\ uploaded_file = NoFile
  /\ \E f \in Files :
       /\ uploaded_file' = f
       /\ last_run' = IF MissingCols(read_csv(f)) # <<>> THEN "missing_columns"
                      ELSE "preview"
  /\ calls' = <<>>
  /\ products' = <<>>
  /\ levels' = <<>>
  /\ UNCHANGED <<session_state, pc, idx, df, scraped_descriptions, scraped_images, links,
                 shopify_session, next_id, submitted>>

(***************************************************************************)
(* Phase 1.                                                                *)
(***************************************************************************)
\* The "Scrape Data from Deloox" button exists only when main() got past the column check.
\* The model follows one scrape per session: a second one would read the same file again
\* and replace the session's dataframe by a fresh one.
ClickScrape ==
  /\ pc = "idle"
  /\ uploaded_file # NoFile
  /\ "dataframe" \notin DOMAIN session_state
  /\ MissingCols(read_csv(uploaded_file)) = <<>>
  /\ df' = read_csv(uploaded_file)
  /\ scraped_descriptions' = <<>>
  /\ scraped_images' = <<>>
  /\ links' = <<>>
  /\ calls' = <<>>
  /\ idx' = 1
  /\ pc' = IF Len(uploaded_file.data) = 0 THEN "link_column" ELSE "scrape_loop"
  /\ last_run' = "running"
  /\ products' = <<>>
  /\ levels' = <<>>
  /\ UNCHANGED <<uploaded_file, session_state, shopify_session, next_id, submitted>>

\* the Scraper called whether or not a link was found
scrape_row_unguarded(resp, page) ==
  [link |-> fetch_product_link(resp), scraper_called |-> TRUE,
   desc |-> fetch_product_details(page)[1], img |-> fetch_product_details(page)[2]]

\* the body of the scrape loop for one row: the link, whether the Scraper is called with
\* it, and the description and image the row gets
scrape_row(resp, page) ==
  LET link == fetch_product_link(resp) IN
    IF Truthy(link)
      THEN [link |-> link, scraper_called |-> TRUE,
            desc |-> fetch_product_details(page)[1], img |-> fetch_product_details(page)[2]]
      ELSE [link |-> link, scraper_called |-> FALSE, desc |-> None, img |-> None]

\* one iteration of the scrape loop
ScrapeRow ==
  /\ pc = "scrape_loop"
  /\ idx <= Len(df.data)
  /\ LET gtin == Strip(df.data[idx]["GTIN"].cs) IN
     \E resp \in SearchResponses(gtin) :
     \E page \in IF Truthy(fetch_product_link(resp)) THEN DetailResponses
                  ELSE {[kind |-> "error"]} :
       LET r == scrape_row(resp, page)
           looked == Append(calls, [op |-> "lookup", site |-> "scrape_loop", row |-> idx,
                                    keyword |-> gtin, result |-> r.link])
       IN  /\ scraped_descriptions' = Append(scraped_descriptions, r.desc)
           /\ scraped_images' = Append(scraped_images, r.img)
           /\ calls' = IF r.scraper_called
                         THEN Append(looked, [op |-> "details", row |-> idx, url |-> r.link,
                                              result |-> <<r.desc, r.img>>])
                         ELSE looked
  /\ idx' = IF idx = Len(df.data) THEN 1 ELSE idx + 1
  /\ pc' = IF idx = Len(df.data) THEN "link_column" ELSE "scrape_loop"
  /\ UNCHANGED <<uploaded_file, session_state, df, links, shopify_session, products, levels,
                 next_id, submitted, last_run>>

\* one element of the list built for df["Link"]
LinkRow ==
  /\ pc = "link_column"
  /\ idx <= Len(df.data)
  /\ LET gtin == df.data[idx]["GTIN"].cs IN
     \E resp \in SearchResponses(gtin) :
       LET link == fetch_product_link(resp) IN
         /\ links' = Append(links, link)
         /\ calls' = Append(calls, [op |-> "lookup", site |-> "link_column", row |-> idx,
                                    keyword |-> gtin, result |-> link])
  /\ idx' = idx + 1
  /\ UNCHANGED <<uploaded_file, session_state, pc, df, scraped_descriptions, scraped_images,
                 shopify_session, products, levels, next_id, submitted, last_run>>

\* some cell of the cost column is a string: the multiplication raises
PricingRaises(d) == \E i \in 1..Len(d.data) : TimesRaises(d.data[i][PRICE_COL])

\* the selling price computed only for the rows whose link was found
ScrapedPricedWhereLinked(d, lks, descs, imgs) ==
  LET d1 == SetColumn(d, "Link", lks)
      d2 == SetColumn(d1, "Description", descs)
      d3 == SetColumn(d2, "Image_URL", imgs)
  IN  SetColumn(d3, "Selling Price",
                [i \in 1..Len(d.data) |->
                   IF Truthy(lks[i]) THEN Times(d.data[i][PRICE_COL], Multiplier) ELSE NaN])

\* the columns Phase 1 assigns
Scraped(d, lks, descs, imgs) ==
  LET d1 == SetColumn(d, "Link", lks)
      d2 == SetColumn(d1, "Description", descs)
      d3 == SetColumn(d2, "Image_URL", imgs)
  IN  SetColumn(d3, "Selling Price",
                [i \in 1..Len(d.data) |-> Times(d.data[i][PRICE_COL], Multiplier)])

FinishScrape ==
  /\ pc = "link_column"
  /\ idx > Len(df.data)
  /\ ~PricingRaises(df)
  /\ session_state' =
       [k \in DOMAIN session_state \cup {"dataframe"} |->
          Scraped(df, links, scraped_descriptions, scraped_images)]
  /\ pc' = "idle"
  /\ idx' = 0
  /\ df' = NoFile
  /\ scraped_descriptions' = <<>>
  /\ scraped_images' = <<>>
  /\ links' = <<>>
  /\ last_run' = "scraped"
  /\ UNCHANGED <<uploaded_file, shopify_session, products, levels, next_id, calls, submitted>>

\* the exception is caught by the handler around Phase 1 and shown as an error
FinishScrapeRaises ==
  /\ pc = "link_column"
  /\ idx > Len(df.data)
  /\ PricingRaises(df)
  /\ pc' = "idle"
  /\ idx' = 0
  /\ df' = NoFile
  /\ scraped_descriptions' = <<>>
  /\ scraped_images' = <<>>
  /\ links' = <<>>
  /\ last_run' = "error"
  /\ UNCHANGED <<uploaded_file, session_state, shopify_session, products, levels, next_id, calls,
                 submitted>>

(***************************************************************************)
(* Phase 2.                                                                *)
(***************************************************************************)
initialize_shopify_session == "active"

clear_shopify_session == "none"

\* the "Upload to Shopify" button exists only when main() reached the upload section
ClickUpload ==
  /\ pc = "idle"
  /\ "dataframe" \in DOMAIN session_state
  /\ uploaded_file # NoFile => MissingCols(read_csv(uploaded_file)) = <<>>
  /\ submitted + Len(session_state["dataframe"].data) <= MaxUploads
  /\ submitted' = submitted + Len(session_state["dataframe"].data)
  /\ shopify_session' = initialize_shopify_session
  /\ session_state' =
       [session_state EXCEPT !["dataframe"] =
          AddColumnIfAbsent(AddColumnIfAbsent(@, "Product ID", None),
                            "Upload Status", Text("Pending"))]
  /\ calls' = <<[op |-> "activate"]>>
  /\ products' = <<>>
  /\ levels' = <<>>
  /\ idx' = 1
  /\ pc' = "upload_loop"
  /\ last_run' = "running"
  /\ UNCHANGED <<uploaded_file, df, scraped_descriptions, scraped_images, links, next_id>>

\* int(row["Inventory"]) raises for this row
CoercionRaises(row) == ~IsNa(row["Inventory"]) /\ ~PyInt(row["Inventory"]).ok

\* the arguments the upload loop passes to upload_product for a row
UploadArgs(row) ==
  [name |-> row["Name"],
   description |-> IF ~IsNa(row["Description"]) THEN row["Description"] ELSE Text(""),
   selling_price |-> IF ~IsNa(row["Selling Price"]) THEN row["Selling Price"] ELSE Num(0, 1),
   image_url |-> IF ~IsNa(row["Image_URL"]) THEN row["Image_URL"] ELSE Text(""),
   sku |-> row["GTIN"],
   inventory |-> IF ~IsNa(row["Inventory"]) THEN PyInt(row["Inventory"]).v ELSE 0]

\* upload_product for a row, the platform answering env
UploadOf(row, env) ==
  LET a == UploadArgs(row) IN
    upload_product(a.name, a.description, a.selling_price, a.image_url, a.sku, a.inventory,
                   env, products, levels, next_id)

\* the rows' cells after the call returned r for row i
Recorded(d, i, r) ==
  IF r.success
    THEN SetAt(SetAt(d, i, "Product ID", r.product_id), i, "Upload Status", Text("Active"))
    ELSE SetAt(d, i, "Upload Status", Text("Failed: " \o PyStr(r.error)))

\* one iteration of the upload loop
UploadRow ==
  /\ pc = "upload_loop"
  /\ idx <= Len(session_state["dataframe"].data)
  /\ LET row == session_state["dataframe"].data[idx]
     IN  /\ ~CoercionRaises(row)
         /\ \E env \in PlatformAnswers :
              LET r == UploadOf(row, env)
              IN  /\ session_state' =
                       [session_state EXCEPT !["dataframe"] = Recorded(@, idx, r)]
                  /\ products' = r.products
                  /\ levels' = r.levels
                  /\ next_id' = next_id + Len(r.products) - Len(products)
                  /\ calls' = Append(calls,
                                [op |-> "upload", row |-> idx, session |-> shopify_session,
                                 success |-> r.success, product_id |-> r.product_id,
                                 error |-> r.error,
                                 stored |-> IF Len(r.products) > Len(products)
                                              THEN r.products[Len(r.products)].id ELSE 0])
  /\ idx' = idx + 1
  /\ UNCHANGED <<uploaded_file, pc, df, scraped_descriptions, scraped_images, links,
                 shopify_session, submitted, last_run>>

\* the exception leaves main(): nothing after the loop runs
UploadRowRaises ==
  /\ pc = "upload_loop"
  /\ idx <= Len(session_state["dataframe"].data)
  /\ CoercionRaises(session_state["dataframe"].data[idx])
  /\ pc' = "idle"
  /\ idx' = 0
  /\ last_run' = "exception"
  /\ UNCHANGED <<uploaded_file, session_state, df, scraped_descriptions, scraped_images,
                 links, shopify_session, products, levels, next_id, calls, submitted>>

FinishUpload ==
  /\ pc = "upload_loop"
  /\ idx > Len(session_state["dataframe"].data)
  /\ shopify_session' = clear_shopify_session
  /\ calls' = Append(calls, [op |-> "clear"])
  /\ pc' = "idle"
  /\ idx' = 0
  /\ last_run' = "uploaded"
  /\ UNCHANGED <<uploaded_file, session_state, df, scraped_descriptions, scraped_images,
                 links, products, levels, next_id, submitted>>

Next ==
  \/ UploadFile
  \/ ClickScrape
  \/ ScrapeRow
  \/ LinkRow
  \/ FinishScrape
  \/ FinishScrapeRaises
  \/ ClickUpload
  \/ UploadRow
  \/ UploadRowRaises
  \/ FinishUpload

Spec == Init /\ [][Next]_vars

(***************************************************************************)
(* Properties.                                                             *)
(***************************************************************************)
HasDataframe == "dataframe" \in DOMAIN session_state

Dataframe == session_state["dataframe"]

Cell(i, c) == Dataframe.data[i][c]

Rows == 1..Len(Dataframe.data)

\* the running (or last) run of main() is an upload batch
BatchRan == calls # <<>> /\ calls[1].op = "activate"

IsUpload(c) == c.op = "upload"

NoLocations == "No locations found for inventory."

DerivedCols ==
  {"Link", "Description", "Image_URL", "Selling Price", "Product ID", "Upload Status"}

\* C2: in the scrape loop the Scraper is called only with the link Lookup just returned for
\* the same row; a row whose Lookup returned nothing gets no Scraper call and an absent
\* description and image.
C2_ScraperOnlyWithLink ==
  /\ \A k \in DOMAIN calls :
       calls[k].op = "details" =>
         /\ k > 1
         /\ calls[k - 1].op = "lookup"
         /\ calls[k - 1].site = "scrape_loop"
         /\ calls[k - 1].row = calls[k].row
         /\ calls[k - 1].result = calls[k].url
         /\ calls[k].url # None
  /\ \A k \in DOMAIN calls :
       (calls[k].op = "lookup" /\ calls[k].site = "scrape_loop" /\ calls[k].result = None) =>
         /\ \A j \in DOMAIN calls : ~(calls[j].op = "details" /\ calls[j].row = calls[k].row)
         /\ pc \in {"scrape_loop", "link_column"} =>
              /\ scraped_descriptions[calls[k].row] = None
              /\ scraped_images[calls[k].row] = None
         /\ last_run = "scraped" =>
              /\ Cell(calls[k].row, "Description") = None
              /\ Cell(calls[k].row, "Image_URL") = None

C2_Witness ==
  /\ last_run = "scraped"
  /\ \E k \in DOMAIN calls :
       calls[k].op = "lookup" /\ calls[k].site = "scrape_loop" /\ calls[k].result = None
  /\ \E k \in DOMAIN calls : calls[k].op = "details"

\* C5: a file that lacks a required column ends the run with the missing-columns error
\* before any row is processed: no Lookup, Scraper or Uploader call, nothing stored on the
\* platform, no dataframe in the session.  A file with all required columns and an extra
\* one never ends that way.
C5_MissingColumnsAbort ==
  /\ (uploaded_file # NoFile /\ \E c \in Range(required_cols) : c \notin uploaded_file.columns)
       => /\ last_run = "missing_columns"
          /\ pc = "idle"
          /\ calls = <<>>
          /\ products = <<>>
          /\ ~HasDataframe
  /\ (uploaded_file # NoFile /\ Range(required_cols) \subseteq uploaded_file.columns)
       => last_run # "missing_columns"

C5_Witness ==
  /\ uploaded_file # NoFile
  /\ "Inventory" \notin uploaded_file.columns
  /\ "Notes" \in uploaded_file.columns
  /\ Len(uploaded_file.data) > 0
  /\ last_run = "missing_columns"

\* C6: in the stored dataframe every row's selling price is its cost times 1.40 (as
\* fractions: price.n / price.d = cost.n * 140 / (cost.d * 100)), and missing where the cost
\* is missing, whatever the row's link, description and image.
C6_SellingPrice ==
  HasDataframe =>
    \A i \in Rows :
      LET cost == Cell(i, PRICE_COL)
          price == Cell(i, "Selling Price")
      IN  IF cost.t = "num"
            THEN price.t = "num" /\ price.n * (cost.d * 100) = (cost.n * 140) * price.d
            ELSE price = NaN

C6_Witness ==
  /\ HasDataframe
  /\ \E i \in Rows : Cell(i, PRICE_COL) = NaN
  /\ \E i \in Rows :
       /\ Cell(i, PRICE_COL).t = "num"
       /\ Cell(i, PRICE_COL).n = 0
       /\ Cell(i, "Link") = None
       /\ Cell(i, "Description") = None

\* C7: the session's dataframe has the rows of the uploaded file, in the file's order, with
\* the file's value in every column of the file; the only other columns are the derived ones.
C7_RowsKept ==
  HasDataframe =>
    /\ Len(Dataframe.data) = Len(uploaded_file.data)
    /\ uploaded_file.columns \subseteq Dataframe.columns
    /\ Dataframe.columns \ uploaded_file.columns \subseteq DerivedCols
    /\ \A i \in Rows :
         /\ DOMAIN Dataframe.data[i] = Dataframe.columns
         /\ \A c \in uploaded_file.columns : Cell(i, c) = uploaded_file.data[i][c]

C7_Witness ==
  /\ last_run = "uploaded"
  /\ Len(Dataframe.data) > 1
  /\ Cell(1, "GTIN") # Cell(2, "GTIN")
  /\ \E i \in Rows : Cell(i, "Upload Status") = Text("Active")
  /\ \E i \in Rows : Cell(i, "Upload Status") # Text("Active")

\* C8: for the row the upload loop is at, whatever the platform answers: if it accepts the
\* product and has no location, upload_product returns (False, None, the no-locations
\* message), sets no inventory level and leaves the stored product; it returns success only
\* with the id of a product it stored, after setting the level of that product's single
\* variant at the first location.  During the batch every stored product stays stored.
C8_UploadProduct ==
  /\ (pc = "upload_loop" /\ idx <= Len(Dataframe.data) /\ ~CoercionRaises(Dataframe.data[idx]))
       => \A env \in PlatformAnswers :
            LET r == UploadOf(Dataframe.data[idx], env)
                n == Len(r.products)
            IN  /\ (env.save = "accept" /\ env.find = "ok" /\ env.locations = <<>>) =>
                     /\ ~r.success
                     /\ r.product_id = None
                     /\ r.error = Text(NoLocations)
                     /\ r.levels = levels
                     /\ n = Len(products) + 1
                     /\ SubSeq(r.products, 1, n - 1) = products
                     /\ r.products[n].variants[1].sku = Cell(idx, "GTIN")
                /\ r.success =>
                     /\ env.save = "accept"
                     /\ n = Len(products) + 1
                     /\ SubSeq(r.products, 1, n - 1) = products
                     /\ r.product_id = Num(r.products[n].id, 1)
                     /\ Len(r.products[n].variants) = 1
                     /\ r.levels =
                          Append(levels,
                            [location_id |-> env.locations[1],
                             inventory_item_id |-> r.products[n].variants[1].inventory_item_id,
                             available |-> UploadArgs(Dataframe.data[idx]).inventory])
  /\ \A k \in DOMAIN calls :
       IsUpload(calls[k]) =>
         LET c == calls[k] IN
           /\ c.stored # 0 => \E j \in DOMAIN products : products[j].id = c.stored
           /\ c.success =>
                /\ c.stored # 0
                /\ c.product_id = Num(c.stored, 1)
                /\ \E j \in DOMAIN levels :
                     levels[j].inventory_item_id = c.stored /\ levels[j].location_id = "L1"
           /\ (c.error.t = "str" /\ c.error.s = NoLocations) =>
                /\ ~c.success
                /\ c.product_id = None
                /\ c.stored # 0
                /\ ~\E j \in DOMAIN levels : levels[j].inventory_item_id = c.stored
                /\ Cell(c.row, "Upload Status") = Text("Failed: " \o NoLocations)

C8_Witness ==
  /\ last_run = "uploaded"
  /\ \E i \in Rows :
       /\ Cell(i, "Upload Status") = Text("Failed: " \o NoLocations)
       /\ Cell(i, "Product ID") = None
       /\ \E j \in DOMAIN products : products[j].variants[1].sku = Cell(i, "GTIN")
  /\ \E i \in Rows :
       /\ Cell(i, "Upload Status") = Text("Active")
       /\ \E j \in DOMAIN levels : Num(levels[j].inventory_item_id, 1) = Cell(i, "Product ID")

\* the upload_product calls of the running (or last) batch
UploadCalls == SelectSeq(calls, IsUpload)

\* C1: a row whose product the platform rejected with "title required" has the status
\* "Failed: title required" and no product id.
C1_RejectedRowStatus ==
  \A k \in DOMAIN calls :
    (IsUpload(calls[k]) /\ calls[k].error.t = "list"
       /\ calls[k].error.items = <<"title required">>) =>
      /\ Cell(calls[k].row, "Upload Status") = Text("Failed: title required")
      /\ Cell(calls[k].row, "Product ID") = None

\* C3: when an upload batch has ended, every row got exactly one upload_product call, in
\* the dataframe's order, and every row's status is Active or Failed with the reason of
\* its call; no row is Pending.
C3_BatchCoversEveryRow ==
  (pc = "idle" /\ BatchRan) =>
    /\ Len(UploadCalls) = Len(Dataframe.data)
    /\ \A i \in Rows :
         /\ UploadCalls[i].row = i
         /\ Cell(i, "Upload Status") # Text("Pending")
         /\ Cell(i, "Upload Status") =
              IF UploadCalls[i].success THEN Text("Active")
              ELSE Text("Failed: " \o PyStr(UploadCalls[i].error))

\* C4: a batch activates the session once, before its first upload_product call; every
\* call of the batch is made with the session active; the session is cleared only at the
\* end; and when the batch has ended the session is released.
C4_SessionBracketsBatch ==
  BatchRan =>
    /\ \A k \in DOMAIN calls : calls[k].op = "activate" => k = 1
    /\ \A k \in DOMAIN calls : IsUpload(calls[k]) => calls[k].session = "active"
    /\ \A k \in DOMAIN calls : calls[k].op = "clear" => (k = Len(calls) /\ pc = "idle")
    /\ pc = "upload_loop" => shopify_session = "active"
    /\ pc = "idle" => shopify_session = "none"

\* C9: after Phase 1 the Link of every row is the link the scrape loop used for the row:
\* a row without Link has no Description and no Image_URL, and a row with a Description
\* has a Link.
C9_LinkMatchesEnrichment ==
  last_run = "scraped" =>
    \A i \in Rows :
      /\ Cell(i, "Link") = None => (Cell(i, "Description") = None /\ Cell(i, "Image_URL") = None)
      /\ Cell(i, "Description") # None => Cell(i, "Link") # None
      /\ \A k \in DOMAIN calls :
           (calls[k].op = "lookup" /\ calls[k].site = "scrape_loop" /\ calls[k].row = i)
             => Cell(i, "Link") = calls[k].result

\* C10: between upload batches, a row has a Product ID exactly when its status is Active.
C10_ProductIdIffActive ==
  (pc = "idle" /\ HasDataframe /\ "Upload Status" \in Dataframe.columns) =>
    \A i \in Rows :
      (Cell(i, "Product ID") # None) <=> (Cell(i, "Upload Status") = Text("Active"))

====
